---- MODULE Spec2Model ----
(***************************************************************************)
(* A model of FluDataCrawler (src/code.py): the bounded-retry search, the   *)
(* batched fetch with per-record field extraction, and main's output stage. *)
(* Text is modelled as sequences of one-character strings, so that lower()  *)
(* and the substring test of the virulence scan are computed, not assumed.  *)
(***************************************************************************)
EXTENDS Integers, Sequences, FiniteSets, TLC

VARIABLES
    pc,          \* position of the program: which call or stage of main runs
    id_list,     \* main's id_list (the value search_ncbi_flu returned)
    search_log,  \* outcome of every esearch request issued so far, in order
    attempt,     \* the `attempt` loop variable of the retry loop that is running
    i,           \* fetch_sequence_data: start index of the current batch
    batch_ids,   \* fetch_sequence_data: id_list[i:i + batch_size]
    sequences,   \* fetch_sequence_data: the list of extracted records
    requests,    \* every efetch request issued so far: the batch's start index
                 \* and whether the attempt succeeded, in order
    caught,      \* outcome of the latest remote call: "ok" or the error caught
    delays,      \* the time.sleep() arguments of the current retry loop, in order
    files,       \* the output files written so far: file name -> content
    uncaught,    \* the exception that left main, "none" while there is none
    record,      \* extraction alone: the parsed GenBank record handed over
    seq_data     \* extraction alone: the dictionary built for that record

vars == <<pc, id_list, search_log, attempt, i, batch_ids, sequences, requests,
          caught, delays, files, uncaught, record, seq_data>>

----------------------------------------------------------------------------
(* Bounds of the model *)

\* the largest identifier list a search returns
MaxIds == 101
\* a failing fetch attempt has parsed at most this many records of its batch
MaxPartial == 1
\* the most features in the feature table of a record extracted alone
MaxFeatures == 2
\* the most qualifiers, over all features, of a record extracted alone
MaxQuals == 2

----------------------------------------------------------------------------
(* Text *)

UpperCase == <<"A","B","C","D","E","F","G","H","I","J","K","L","M",
               "N","O","P","Q","R","S","T","U","V","W","X","Y","Z">>
LowerCase == <<"a","b","c","d","e","f","g","h","i","j","k","l","m",
               "n","o","p","q","r","s","t","u","v","w","x","y","z">>

\* str.lower() on one character
LowerChar(c) ==
    IF \E k \in 1..Len(UpperCase) : UpperCase[k] = c
    THEN LowerCase[CHOOSE k \in 1..Len(UpperCase) : UpperCase[k] = c]
    ELSE c

\* str.lower()
Lower(s) == [k \in 1..Len(s) |-> LowerChar(s[k])]

\* `term in value` on strings: term is a contiguous substring of value
Contains(term, value) ==
    \E k \in 0..(Len(value) - Len(term)) :
        SubSeq(value, k + 1, k + Len(term)) = term

\* dict.get(key, default)
Get(d, key, default) == IF key \in DOMAIN d THEN d[key] ELSE default

\* the empty string ''
EmptyStr == <<>>

----------------------------------------------------------------------------
(* Extraction of one record: fetch_sequence_data, the body of               *)
(* `for record in records`                                                   *)

\* the key a qualifier without 'GBQualifier_name' is compared under (None)
NoName == "<None>"

\* seq_data as first built: accession and sequence copied, the rest ''
NewSeqData(rec) ==
    [accession       |-> Get(rec, "GBSeq_accession-version", EmptyStr),
     sequence        |-> Get(rec, "GBSeq_sequence", EmptyStr),
     strain          |-> EmptyStr,
     host            |-> EmptyStr,
     collection_date |-> EmptyStr,
     country         |-> EmptyStr,
     virulence_info  |-> EmptyStr]

\* a variant of the if/elif chain that keeps a field once it is set
SetSourceQualifierKeepFirst(sd, qualifier) ==
    LET name  == Get(qualifier, "GBQualifier_name", NoName)
        value == Get(qualifier, "GBQualifier_value", EmptyStr)
    IN  IF name \in {"strain", "host", "country", "collection_date"}
           /\ sd[name] = EmptyStr
        THEN [sd EXCEPT ![name] = value]
        ELSE sd

\* the if/elif chain on one qualifier of a "source" feature
SetSourceQualifier(sd, qualifier) ==
    LET name  == Get(qualifier, "GBQualifier_name", NoName)
        value == Get(qualifier, "GBQualifier_value", EmptyStr)
    IN  IF name = "strain" THEN [sd EXCEPT !.strain = value]
        ELSE IF name = "host" THEN [sd EXCEPT !.host = value]
        ELSE IF name = "country" THEN [sd EXCEPT !.country = value]
        ELSE IF name = "collection_date"
             THEN [sd EXCEPT !.collection_date = value]
        ELSE sd

\* for qualifier in feature.get('GBFeature_quals', []), "source" feature
RECURSIVE ScanSourceQuals(_, _)
ScanSourceQuals(sd, quals) ==
    IF quals = <<>> THEN sd
    ELSE ScanSourceQuals(SetSourceQualifier(sd, Head(quals)), Tail(quals))

\* first loop over the feature table: only features whose key is 'source'
RECURSIVE ScanSourceFeatures(_, _)
ScanSourceFeatures(sd, features) ==
    IF features = <<>> THEN sd
    ELSE LET feature == Head(features)
             next == IF Get(feature, "GBFeature_key", NoName) = "source"
                     THEN ScanSourceQuals(sd,
                              Get(feature, "GBFeature_quals", <<>>))
                     ELSE sd
         IN  ScanSourceFeatures(next, Tail(features))

\* the terms looked for in a lower-cased note or comment
Terms == <<<<"v","i","r","u","l","e","n">>,
           <<"p","a","t","h","o","g","e","n","i","c">>,
           <<"p","a","t","h","o","g","e","n","i","c","i","t","y">>>>

\* any(term in value for term in [...])
AnyTermIn(value) == \E t \in 1..Len(Terms) : Contains(Terms[t], value)

\* a variant of the virulence test that compares without lower()
SetVirulenceQualifierCaseSensitive(sd, qualifier) ==
    IF Get(qualifier, "GBQualifier_name", NoName) \in {"note", "comment"}
       /\ AnyTermIn(Get(qualifier, "GBQualifier_value", EmptyStr))
    THEN [sd EXCEPT !.virulence_info =
                        Get(qualifier, "GBQualifier_value", EmptyStr)]
    ELSE sd

\* the virulence test on one qualifier
SetVirulenceQualifier(sd, qualifier) ==
    IF Get(qualifier, "GBQualifier_name", NoName) \in {"note", "comment"}
    THEN LET value == Lower(Get(qualifier, "GBQualifier_value", EmptyStr))
         IN  IF AnyTermIn(value)
             THEN [sd EXCEPT !.virulence_info =
                                 Get(qualifier, "GBQualifier_value", EmptyStr)]
             ELSE sd
    ELSE sd

\* for qualifier in feature['GBFeature_quals']
RECURSIVE ScanVirulenceQuals(_, _)
ScanVirulenceQuals(sd, quals) ==
    IF quals = <<>> THEN sd
    ELSE ScanVirulenceQuals(SetVirulenceQualifier(sd, Head(quals)),
                            Tail(quals))

\* second loop over the feature table: every feature that has qualifiers
RECURSIVE ScanVirulenceFeatures(_, _)
ScanVirulenceFeatures(sd, features) ==
    IF features = <<>> THEN sd
    ELSE LET feature == Head(features)
             next == IF "GBFeature_quals" \in DOMAIN feature
                     THEN ScanVirulenceQuals(sd, feature["GBFeature_quals"])
                     ELSE sd
         IN  ScanVirulenceFeatures(next, Tail(features))

\* the dictionary appended to `sequences` for one parsed record
Extract(rec) ==
    LET table == Get(rec, "GBSeq_feature-table", <<>>)
    IN  ScanVirulenceFeatures(ScanSourceFeatures(NewSeqData(rec), table),
                              table)

----------------------------------------------------------------------------
(* The records handed to the extraction when it is checked alone *)

TxtVirulent == <<"V","i","r","u","l","e","n","t">>
TxtPathogenicity == <<"H","i","g","h"," ","p","a","t","h","o","g","e","n","i","c","i","t","y"," ","o","b","s","e","r","v","e","d">>
TxtMild == <<"m","i","l","d">>
TxtAccession == <<"A","B","1",".","1">>
TxtSequence == <<"A","C","G","T">>

FeatureKeys == {"source", "CDS"}

\* the qualifiers a feature may carry; the last one has no value
Qualifiers ==
    {[GBQualifier_name |-> n, GBQualifier_value |-> v] :
        n \in {"strain", "host", "country", "collection_date"},
        v \in {TxtMild, TxtVirulent}}
    \cup {[GBQualifier_name |-> "note", GBQualifier_value |-> v] :
            v \in {TxtMild, TxtVirulent, TxtPathogenicity}}
    \cup {[GBQualifier_name |-> "comment",
           GBQualifier_value |-> TxtPathogenicity]}
    \cup {[GBQualifier_name |-> "product", GBQualifier_value |-> TxtVirulent],
          [GBQualifier_name |-> "note"]}

\* the shape of a feature table: per feature, the number of its qualifiers,
\* or NoQuals for a feature that has no 'GBFeature_quals' key
NoQuals == -1

QualCount(n) == IF n = NoQuals THEN 0 ELSE n

RECURSIVE TotalQuals(_)
TotalQuals(shape) ==
    IF shape = <<>> THEN 0
    ELSE QualCount(Head(shape)) + TotalQuals(Tail(shape))

\* shapes of at most MaxFeatures features and MaxQuals qualifiers in all
Shapes ==
    UNION {{shape \in [1..f -> {NoQuals} \cup (1..MaxQuals)] :
               TotalQuals(shape) <= MaxQuals} : f \in 0..MaxFeatures}

\* the feature table of the given shape, feature keys and qualifiers
FeatureTable(shape, keys, quals) ==
    [k \in 1..Len(shape) |->
        IF shape[k] = NoQuals
        THEN [GBFeature_key |-> keys[k]]
        ELSE [GBFeature_key |-> keys[k],
              GBFeature_quals |->
                  SubSeq(quals,
                         TotalQuals(SubSeq(shape, 1, k - 1)) + 1,
                         TotalQuals(SubSeq(shape, 1, k)))]]

\* a parsed GenBank record with the given feature table
GBSeq(table) ==
    ("GBSeq_accession-version" :> TxtAccession)
    @@ ("GBSeq_sequence" :> TxtSequence)
    @@ ("GBSeq_feature-table" :> table)

\* a parsed record that has neither accession nor feature table
BareRecord == "GBSeq_sequence" :> TxtSequence

\* no dictionary built yet
NoData == <<>>

----------------------------------------------------------------------------
(* The extraction checked alone: one record in, one dictionary out *)

InitExtract ==
    /\ pc = "extract"
    /\ \/ \E shape \in Shapes :
          \E keys \in [1..Len(shape) -> FeatureKeys] :
          \E quals \in [1..TotalQuals(shape) -> Qualifiers] :
              record = GBSeq(FeatureTable(shape, keys, quals))
       \/ record = BareRecord
    /\ seq_data = NoData
    /\ id_list = <<>>
    /\ search_log = <<>>
    /\ attempt = 0
    /\ i = 0
    /\ batch_ids = <<>>
    /\ sequences = <<>>
    /\ requests = <<>>
    /\ caught = "none"
    /\ delays = <<>>
    /\ files = <<>>
    /\ uncaught = "none"

\* lines 60-92 on `record`
ExtractRecord ==
    /\ pc = "extract"
    /\ seq_data' = Extract(record)
    /\ pc' = "extracted"
    /\ UNCHANGED <<record, id_list, search_log, attempt, i, batch_ids,
                   sequences, requests, caught, delays, files, uncaught>>

NextExtract == ExtractRecord

SpecExtract == InitExtract /\ [][NextExtract]_vars

----------------------------------------------------------------------------
(* Program constants *)

\* range(3) of the search retry loop
SearchAttempts == 3
\* range(3) of the per-batch retry loop
FetchAttempts == 3
\* batch_size
batch_size == 50
\* time.sleep(1) after a batch that succeeded
CourtesyPause == 1

\* a variant of the backoff that grows linearly
BackoffLinear(n) == n + 1

\* time.sleep(2 ** attempt)
Backoff(n) == 2 ^ n

\* s[lo:hi] for 0 <= lo <= hi
Slice(s, lo, hi) ==
    SubSeq(s, lo + 1, IF hi < Len(s) THEN hi ELSE Len(s))

FullTableFile == "flu_sequences_with_virulence.csv"
FastaFile == "flu_sequences.fasta"
VirulenceFile == "virulence_annotations.csv"

----------------------------------------------------------------------------
(* The remote service *)

\* the identifier lists a successful search returns
IdCounts == {0, 1, 2, batch_size, batch_size + 1, 2 * batch_size, MaxIds}

IdList(n) == [p \in 1..n |-> p]

\* the errors caught by `except (URLError, HTTPException)`; both classes are
\* handled by the one clause, and URLError stands for either
TransientErrors == {"URLError"}
\* an error only `except Exception` catches
OtherError == "ValueError"

Digit == <<"0","1","2","3","4","5","6","7","8","9">>

RECURSIVE Decimal(_)
Decimal(n) ==
    IF n < 10 THEN <<Digit[n + 1]>>
    ELSE Decimal(n \div 10) \o <<Digit[(n % 10) + 1]>>

\* the GenBank record the service holds for an identifier
RecordOf(id) ==
    LET base == ("GBSeq_accession-version" :> Decimal(id))
                @@ ("GBSeq_sequence" :> TxtSequence)
    IN  IF id % 3 = 1
        THEN base @@ ("GBSeq_feature-table" :>
                 <<[GBFeature_key |-> "source",
                    GBFeature_quals |->
                        <<[GBQualifier_name |-> "host",
                           GBQualifier_value |-> TxtMild]>>],
                   [GBFeature_key |-> "CDS",
                    GBFeature_quals |->
                        <<[GBQualifier_name |-> "note",
                           GBQualifier_value |-> TxtVirulent]>>]>>)
        ELSE IF id % 3 = 2
        THEN base @@ ("GBSeq_feature-table" :>
                 <<[GBFeature_key |-> "source"]>>)
        ELSE base

\* the dictionaries built from the first k records of a response
Parsed(ids, k) == [p \in 1..k |-> Extract(RecordOf(ids[p]))]

\* how many records a failing attempt may have parsed before it fails
PartialCounts(ids) ==
    0..(IF Len(ids) < MaxPartial THEN Len(ids) ELSE MaxPartial)

----------------------------------------------------------------------------
(* search_ncbi_flu *)

Init ==
    /\ pc = "search"
    /\ id_list = <<>>
    /\ search_log = <<>>
    /\ attempt = 0
    /\ i = 0
    /\ batch_ids = <<>>
    /\ sequences = <<>>
    /\ requests = <<>>
    /\ caught = "none"
    /\ delays = <<>>
    /\ files = <<>>
    /\ uncaught = "none"
    /\ record = BareRecord
    /\ seq_data = NoData

\* esearch answers: return record["IdList"]
SearchOk ==
    /\ pc = "search"
    /\ \E n \in IdCounts :
          /\ search_log' = Append(search_log,
                                  [outcome |-> "ok", IdList |-> IdList(n)])
          /\ id_list' = IdList(n)
    /\ caught' = "ok"
    /\ pc' = "searched"
    /\ UNCHANGED <<attempt, i, batch_ids, sequences, requests, delays, files,
                   uncaught, record, seq_data>>

\* a variant of the transient handler that returns [] without retrying
SearchTransientNoRetry ==
    /\ pc = "search"
    /\ \E e \in TransientErrors :
          /\ search_log' = Append(search_log, [outcome |-> e])
          /\ caught' = e
    /\ id_list' = <<>>
    /\ pc' = "searched"
    /\ UNCHANGED <<attempt, delays, i, batch_ids, sequences, requests, files,
                   uncaught, record, seq_data>>

\* esearch raises URLError or HTTPException: sleep, then the next attempt,
\* or `return []` once the loop is exhausted
SearchTransient ==
    /\ pc = "search"
    /\ \E e \in TransientErrors :
          /\ search_log' = Append(search_log, [outcome |-> e])
          /\ caught' = e
    /\ delays' = Append(delays, Backoff(attempt))
    /\ IF attempt + 1 < SearchAttempts
       THEN /\ attempt' = attempt + 1
            /\ UNCHANGED <<pc, id_list>>
       ELSE /\ id_list' = <<>>
            /\ pc' = "searched"
            /\ UNCHANGED attempt
    /\ UNCHANGED <<i, batch_ids, sequences, requests, files, uncaught,
                   record, seq_data>>

\* a variant of the `except Exception` handler that retries like a
\* transient error
SearchOtherRetry ==
    /\ pc = "search"
    /\ search_log' = Append(search_log, [outcome |-> OtherError])
    /\ caught' = OtherError
    /\ delays' = Append(delays, Backoff(attempt))
    /\ IF attempt + 1 < SearchAttempts
       THEN /\ attempt' = attempt + 1
            /\ UNCHANGED <<pc, id_list>>
       ELSE /\ id_list' = <<>>
            /\ pc' = "searched"
            /\ UNCHANGED attempt
    /\ UNCHANGED <<i, batch_ids, sequences, requests, files, uncaught,
                   record, seq_data>>

\* esearch raises any other exception: return []
SearchOther ==
    /\ pc = "search"
    /\ search_log' = Append(search_log, [outcome |-> OtherError])
    /\ caught' = OtherError
    /\ id_list' = <<>>
    /\ pc' = "searched"
    /\ UNCHANGED <<attempt, delays, i, batch_ids, sequences, requests, files,
                   uncaught, record, seq_data>>

----------------------------------------------------------------------------
(* main, from the search's return to the call of fetch_sequence_data *)

\* `if id_list:` and the entry of fetch_sequence_data's outer loop
MainBranch ==
    /\ pc = "searched"
    /\ IF id_list # <<>>
       THEN /\ pc' = "fetch"
            /\ i' = 0
            /\ batch_ids' = Slice(id_list, 0, batch_size)
            /\ attempt' = 0
            /\ sequences' = <<>>
       ELSE /\ pc' = "done"
            /\ UNCHANGED <<i, batch_ids, attempt, sequences>>
    /\ UNCHANGED <<id_list, search_log, requests, caught, delays, files,
                   uncaught, record, seq_data>>

----------------------------------------------------------------------------
(* fetch_sequence_data *)

\* a variant of the loop step that advances by one identifier less
NextBatchShort ==
    IF i + batch_size - 1 < Len(id_list)
    THEN /\ i' = i + batch_size - 1
         /\ batch_ids' = Slice(id_list, i + batch_size - 1,
                               i + 2 * batch_size - 1)
         /\ attempt' = 0
         /\ UNCHANGED pc
    ELSE /\ pc' = "fetched"
         /\ UNCHANGED <<i, batch_ids, attempt>>

\* the outer loop moves on: the next i of range(0, len(id_list), batch_size)
\* and its batch, or `return sequences`
NextBatch ==
    IF i + batch_size < Len(id_list)
    THEN /\ i' = i + batch_size
         /\ batch_ids' = Slice(id_list, i + batch_size, i + 2 * batch_size)
         /\ attempt' = 0
         /\ UNCHANGED pc
    ELSE /\ pc' = "fetched"
         /\ UNCHANGED <<i, batch_ids, attempt>>

\* the sleeps of the retry loop that is running, before this attempt's own
LoopDelays == IF attempt = 0 THEN <<>> ELSE delays

\* an attempt on which every record is parsed and the handle is closed
FetchOk ==
    /\ pc = "fetch"
    /\ requests' = Append(requests, [i |-> i, outcome |-> "ok"])
    /\ sequences' = sequences \o Parsed(batch_ids, Len(batch_ids))
    /\ caught' = "ok"
    /\ delays' = Append(LoopDelays, CourtesyPause)
    /\ NextBatch
    /\ UNCHANGED <<id_list, search_log, files, uncaught, record, seq_data>>

\* an attempt that raises after k records of the response were parsed and
\* appended: sleep, then the next attempt, or the for-else that skips the batch
FetchFail ==
    /\ pc = "fetch"
    /\ requests' = Append(requests, [i |-> i, outcome |-> "error"])
    /\ \E k \in PartialCounts(batch_ids) :
          sequences' = sequences \o Parsed(batch_ids, k)
    /\ \E e \in TransientErrors \cup {OtherError} : caught' = e
    /\ delays' = Append(LoopDelays, Backoff(attempt))
    /\ IF attempt + 1 < FetchAttempts
       THEN /\ attempt' = attempt + 1
            /\ UNCHANGED <<pc, i, batch_ids>>
       ELSE NextBatch
    /\ UNCHANGED <<id_list, search_log, files, uncaught, record, seq_data>>

----------------------------------------------------------------------------
(* main, the output stage *)

Columns == <<"accession", "sequence", "strain", "host", "collection_date",
             "country", "virulence_info">>

\* pd.DataFrame(sequences).to_csv: the header row, then one row per record
FullTable(seqs) ==
    <<Columns>> \o [r \in 1..Len(seqs) |->
                       [c \in 1..Len(Columns) |-> seqs[r][Columns[c]]]]

\* the keys the FASTA header line reads from a record
FastaKeys == {"accession", "strain", " host", "collection_date"}

\* the two lines written for one record
FastaEntry(seq) ==
    <<<<">">> \o seq["accession"] \o <<"|">> \o seq["strain"] \o <<"|">>
         \o seq[" host"] \o <<"|">> \o seq["collection_date"],
      seq["sequence"]>>

\* the lines written before the loop ends or a header raises KeyError
RECURSIVE FastaLines(_)
FastaLines(seqs) ==
    IF seqs = <<>> \/ ~(FastaKeys \subseteq DOMAIN Head(seqs)) THEN <<>>
    ELSE FastaEntry(Head(seqs)) \o FastaLines(Tail(seqs))

FastaRaises(seqs) ==
    \E r \in 1..Len(seqs) : ~(FastaKeys \subseteq DOMAIN seqs[r])

\* virulence_df after the .str.len() > 0 filter
VirulenceTable(seqs) ==
    <<<<"sequence_id", "virulence_annotation">>>> \o
    [r \in 1..Len(SelectSeq(seqs, LAMBDA s : Len(s.virulence_info) > 0)) |->
        LET s == SelectSeq(seqs, LAMBDA x : Len(x.virulence_info) > 0)[r]
        IN  <<s.accession, s.virulence_info>>]

\* main after fetch_sequence_data returned
MainOutput ==
    /\ pc = "fetched"
    /\ IF sequences = <<>>
       THEN /\ pc' = "done"
            /\ UNCHANGED <<files, uncaught>>
       ELSE IF FastaRaises(sequences)
       THEN /\ files' = (FullTableFile :> FullTable(sequences))
                        @@ (FastaFile :> FastaLines(sequences))
            /\ uncaught' = "KeyError"
            /\ pc' = "crashed"
       ELSE /\ files' = (FullTableFile :> FullTable(sequences))
                        @@ (FastaFile :> FastaLines(sequences))
                        @@ (VirulenceFile :> VirulenceTable(sequences))
            /\ pc' = "done"
            /\ UNCHANGED uncaught
    /\ UNCHANGED <<id_list, search_log, attempt, i, batch_ids, sequences,
                   requests, caught, delays, record, seq_data>>

----------------------------------------------------------------------------

Next ==
    \/ SearchOk
    \/ SearchTransient
    \/ SearchOther
    \/ MainBranch
    \/ FetchOk
    \/ FetchFail
    \/ MainOutput

Spec == Init /\ [][Next]_vars

----------------------------------------------------------------------------
(* Properties of the extraction (checked under SpecExtract) *)

RECURSIVE QualifiersOf(_, _)
\* the qualifiers of the features whose key is in `keys`, in source order
QualifiersOf(features, keys) ==
    IF features = <<>> THEN <<>>
    ELSE (IF Get(Head(features), "GBFeature_key", NoName) \in keys
          THEN Get(Head(features), "GBFeature_quals", <<>>)
          ELSE <<>>) \o QualifiersOf(Tail(features), keys)

FeatureTableOf(rec) == Get(rec, "GBSeq_feature-table", <<>>)

ValueOf(qualifier) == Get(qualifier, "GBQualifier_value", EmptyStr)

Named(quals, names) ==
    {k \in 1..Len(quals) : Get(quals[k], "GBQualifier_name", NoName) \in names}

Largest(S) == CHOOSE x \in S : \A y \in S : y <= x
Smallest(S) == CHOOSE x \in S : \A y \in S : x <= y

SourceFields == {"strain", "host", "country", "collection_date"}

\* C6 (as amended): each of strain, host, country and collection_date is the
\* value of the LAST qualifier of that name among the qualifiers of the
\* "source" features, in source order ('' when that qualifier has no value);
\* qualifiers of other features never set the field, and a field with no
\* such qualifier stays ''.
C6_LastSourceQualifierWins ==
    pc = "extracted" =>
        \A field \in SourceFields :
            LET quals == QualifiersOf(FeatureTableOf(record), {"source"})
                at == Named(quals, {field})
            IN  seq_data[field] =
                    IF at = {} THEN EmptyStr ELSE ValueOf(quals[Largest(at)])

\* C6 as stated: the value of the FIRST qualifier of that name is kept.
C6_FirstSourceQualifierWins ==
    pc = "extracted" =>
        \A field \in SourceFields :
            LET quals == QualifiersOf(FeatureTableOf(record), {"source"})
                at == Named(quals, {field})
            IN  seq_data[field] =
                    IF at = {} THEN EmptyStr ELSE ValueOf(quals[Smallest(at)])

\* a record extracted whose source features name host twice, with two values
C6_Witness ==
    /\ pc = "extracted"
    /\ LET quals == QualifiersOf(FeatureTableOf(record), {"source"})
           at == Named(quals, {"host"})
       IN  /\ Cardinality(at) = 2
           /\ ValueOf(quals[Smallest(at)]) # ValueOf(quals[Largest(at)])
           /\ seq_data.host = ValueOf(quals[Largest(at)])

\* term occurs in value when letter case is ignored (term is lower-case)
OccursIgnoringCase(term, value) ==
    \E k \in 0..(Len(value) - Len(term)) :
        \A j \in 1..Len(term) : LowerChar(value[k + j]) = term[j]

KwVirulen == <<"v","i","r","u","l","e","n">>
KwPathogenic == <<"p","a","t","h","o","g","e","n","i","c">>

MentionsVirulence(qualifier) ==
    /\ Get(qualifier, "GBQualifier_name", NoName) \in {"note", "comment"}
    /\ \/ OccursIgnoringCase(KwVirulen, ValueOf(qualifier))
       \/ OccursIgnoringCase(KwPathogenic, ValueOf(qualifier))

\* C7: virulence_info is the value, in its original case, of the last
\* qualifier over all features (feature order, then qualifier order) that is
\* named note or comment and whose value contains "virulen" or "pathogenic"
\* whatever the letter case; it is '' when there is none.
C7_VirulenceIsLastMatch ==
    pc = "extracted" =>
        LET quals == QualifiersOf(FeatureTableOf(record), FeatureKeys)
            at == {k \in 1..Len(quals) : MentionsVirulence(quals[k])}
        IN  seq_data.virulence_info =
                IF at = {} THEN EmptyStr ELSE ValueOf(quals[Largest(at)])

\* a record extracted with two matching notes in two features, the later one
\* matching only when case is ignored, and a matching value under "product"
C7_Witness ==
    /\ pc = "extracted"
    /\ LET table == FeatureTableOf(record)
       IN  /\ Len(table) = 2
           /\ \E q \in 1..Len(Get(table[1], "GBFeature_quals", <<>>)) :
                 /\ MentionsVirulence(table[1].GBFeature_quals[q])
                 /\ ValueOf(table[1].GBFeature_quals[q]) = TxtPathogenicity
           /\ Get(table[2], "GBFeature_quals", <<>>) =
                 <<[GBQualifier_name |-> "note",
                    GBQualifier_value |-> TxtVirulent]>>
    /\ seq_data.virulence_info = TxtVirulent

----------------------------------------------------------------------------
(* Properties of the whole run (checked under Spec) *)

\* main has left fetch_sequence_data with a non-empty identifier list
FetchReturned == pc \in {"fetched", "done", "crashed"} /\ id_list # <<>>

\* the batch whose first identifier is at 0-based position b
BatchAt(b) == [p \in 1..(IF Len(id_list) - b < batch_size
                         THEN Len(id_list) - b ELSE batch_size) |->
                  id_list[b + p]]

\* the number of batches of n identifiers: ceil(n / batch_size)
NumBatches(n) == (n + batch_size - 1) \div batch_size

RequestsOf(b) == {k \in 1..Len(requests) : requests[k].i = b}

RECURSIVE Sum(_)
Sum(s) == IF s = <<>> THEN 0 ELSE Head(s) + Sum(Tail(s))

\* C1: the list fetch_sequence_data returns has no more records than there
\* are input identifiers.
C1_NoMoreRecordsThanIdentifiers ==
    FetchReturned => Len(sequences) <= Len(id_list)

RECURSIVE RecordsOfSucceeded(_)
\* the records of the batches of the successful requests of a log, in order
RecordsOfSucceeded(log) ==
    IF log = <<>> THEN <<>>
    ELSE (IF Head(log).outcome = "ok"
          THEN LET ids == BatchAt(Head(log).i)
               IN  [p \in 1..Len(ids) |-> Extract(RecordOf(ids[p]))]
          ELSE <<>>) \o RecordsOfSucceeded(Tail(log))

\* C2: the list returned is exactly the concatenation, in batch order, of
\* the records parsed by the successful attempt of each batch that
\* succeeded; a batch that failed 3 times contributes nothing.
C2_OnlySucceededBatchesContribute ==
    FetchReturned => sequences = RecordsOfSucceeded(requests)

\* C3: no error reaches the top level of main.
C3_NoErrorReachesTopLevel ==
    uncaught = "none" /\ pc # "crashed"

\* C4: at most 3 search requests; a request is followed by another one only
\* after a transient failure; the identifier list of the successful request
\* is what is returned; [] is returned once 3 requests failed transiently,
\* and not before.
C4_SearchBoundedRetry ==
    LET n == Len(search_log)
    IN  /\ n <= 3
        /\ \A k \in 1..(n - 1) : search_log[k].outcome \in TransientErrors
        /\ (pc = "search") <=>
              /\ n < 3
              /\ \A k \in 1..n : search_log[k].outcome \in TransientErrors
        /\ (n > 0 /\ search_log[n].outcome = "ok") =>
              id_list = search_log[n].IdList
        /\ (n > 0 /\ search_log[n].outcome \in TransientErrors
                  /\ pc # "search") =>
              n = 3 /\ id_list = <<>>

\* the search succeeded on its third request, after two transient failures
C4_Witness ==
    /\ pc = "searched"
    /\ Len(search_log) = 3
    /\ search_log[2].outcome \in TransientErrors
    /\ search_log[3].outcome = "ok"
    /\ Len(id_list) = batch_size + 1

\* C5: an error of the search that is not transient ends the call at once
\* with [], on whichever attempt it occurs: it is the last request and no
\* sleep follows it. In a fetch batch the same error is followed by a sleep
\* and a retry of the same batch, which is left only after 3 failed attempts.
C5_OtherErrorFatalInSearchRetriedInFetch ==
    /\ \A k \in 1..Len(search_log) :
          search_log[k].outcome = OtherError =>
              /\ k = Len(search_log)
              /\ pc \in {"searched", "done"}
              /\ id_list = <<>>
              /\ requests = <<>>
              /\ Len(delays) = k - 1
    /\ (requests # <<>> /\ caught = OtherError) =>
          LET last == requests[Len(requests)]
              tries == Cardinality(RequestsOf(last.i))
          IN  /\ last.outcome = "error"
              /\ Len(delays) = tries
              /\ IF pc = "fetch" /\ i = last.i
                 THEN attempt = tries /\ tries < 3
                 ELSE tries = 3

\* the second search request failed with an error that is not transient
C5_Witness ==
    /\ pc = "done"
    /\ Len(search_log) = 2
    /\ search_log[2].outcome = OtherError
    /\ delays = <<1>>
    /\ id_list = <<>>

\* the delays of three failed attempts
ThreeBackoffs == <<1, 2, 4>>

\* C9: in both retry loops the sleeps are 1, 2, 4 after the 1st, 2nd and 3rd
\* failed attempt, 7 in all when the call is abandoned; a successful search
\* request is followed by no sleep, a successful fetch attempt by the
\* 1-unit pause only.
C9_ExponentialBackoff ==
    /\ requests = <<>> =>
          LET failed == {k \in 1..Len(search_log) :
                            search_log[k].outcome \in TransientErrors}
          IN  /\ delays = SubSeq(ThreeBackoffs, 1, Cardinality(failed))
              /\ Cardinality(failed) = 3 => Sum(delays) = 7
    /\ requests # <<>> =>
          LET last == requests[Len(requests)]
              failed == {k \in RequestsOf(last.i) :
                            requests[k].outcome = "error"}
          IN  /\ delays = SubSeq(ThreeBackoffs, 1, Cardinality(failed))
                          \o (IF last.outcome = "ok" THEN <<1>> ELSE <<>>)
              /\ Cardinality(failed) = 3 => Sum(delays) = 7

\* the second batch was skipped after three failures, the first one having
\* succeeded on its second attempt
C9_Witness ==
    /\ Len(requests) = 5
    /\ requests[2] = [i |-> 0, outcome |-> "ok"]
    /\ requests[5] = [i |-> batch_size, outcome |-> "error"]
    /\ delays = <<1, 2, 4>>

\* C10: batches are requested in increasing order, batch j being the
\* identifiers at positions 50j .. min(50j+49, n-1); each batch is requested
\* at least once and at most 3 times, never again after a successful
\* attempt, and the next batch only after the batch succeeded or failed 3
\* times; the call returns after exactly ceil(n/50) batches: until it
\* returns a further attempt is always possible, and every attempt adds a
\* request to a log that holds fewer than 3 * ceil(n/50) of them.
C10_BatchesInOrder ==
    LET n == Len(id_list)
        starts == {batch_size * j : j \in 0..(NumBatches(n) - 1)}
    IN  /\ pc = "fetch" =>
              /\ i \in starts
              /\ batch_ids = BatchAt(i)
              /\ Len(batch_ids) \in 1..batch_size
              /\ attempt = Cardinality(RequestsOf(i))
              /\ attempt < 3
              /\ \A k \in RequestsOf(i) : requests[k].outcome = "error"
              /\ Len(requests) < 3 * NumBatches(n)
              /\ ENABLED (FetchFail \/ FetchOk)
        /\ \A k \in 1..Len(requests) :
              /\ requests[k].i \in starts
              /\ requests[k].i = IF k = 1 THEN 0
                                 ELSE IF requests[k - 1].outcome = "ok"
                                         \/ Cardinality({m \in 1..(k - 1) :
                                                requests[m].i = requests[k - 1].i}) = 3
                                 THEN requests[k - 1].i + batch_size
                                 ELSE requests[k - 1].i
        /\ \A b \in starts : Cardinality(RequestsOf(b)) <= 3
        /\ FetchReturned =>
              /\ {requests[k].i : k \in 1..Len(requests)} = starts
              /\ LET last == requests[Len(requests)]
                 IN  last.outcome = "ok"
                     \/ Cardinality(RequestsOf(last.i)) = 3

\* 101 identifiers: three batches, the last of one identifier; the first
\* succeeded at once, the second was skipped, the third took two attempts
C10_Witness ==
    /\ pc = "fetched"
    /\ Len(id_list) = 2 * batch_size + 1
    /\ [k \in 1..Len(requests) |-> requests[k].i] =
          <<0, batch_size, batch_size, batch_size,
            2 * batch_size, 2 * batch_size>>
    /\ requests[Len(requests)].outcome = "ok"

\* C8: when fetch_sequence_data returned at least one record, the run ends
\* with the filtered table written, holding exactly the records whose
\* virulence_info is not '', next to the full table and the FASTA file.
C8_VirulenceTableWritten ==
    (pc \in {"done", "crashed"} /\ sequences # <<>>) =>
        /\ DOMAIN files = {FullTableFile, FastaFile, VirulenceFile}
        /\ LET rows == files[VirulenceFile]
           IN  \A r \in 1..Len(sequences) :
                  (sequences[r].virulence_info # EmptyStr) <=>
                      \E k \in 2..Len(rows) :
                          rows[k] = <<sequences[r].accession,
                                      sequences[r].virulence_info>>

====
